---- MODULE Spec2Model ----
(***************************************************************************)
(* A model of the call-by-need evaluation core of src/src/builtins.rs:     *)
(* Nodes, shared thunk cells (Rc<RefCell<Thunk>>), the reduction protocol  *)
(* Node::eval / Node::reduce, and the arithmetic builtins add/sub/div/mul. *)
(*                                                                         *)
(* The heap is the sequence of thunk cells allocated so far; a ThunkRef    *)
(* Node is the index of its cell.  The evaluator is the single thread of   *)
(* control of the program: its call stack is explicit, and a panic unwinds *)
(* the whole stack (dropping every RefMut on the way).                     *)
(***************************************************************************)
EXTENDS Integers, Sequences, FiniteSets, TLC

\* Bound on the number of thunk cells the host allocates.
MaxThunks == 2

\* Bound on the invocations counted per cell: the host stops calling
\* evaluate once some computation has been invoked this often.
MaxCalls == 2

\* The scalars the host passes to int().
IntVals == {0, 2}

\* The four builtin operations, named after their ThunkEval structs.
Ops == {"Add", "Sub", "Div", "Mul"}

\* Host supplied implementations of the ThunkEval trait (stubs):
\*   Ret   returns the captured Node as it is,
\*   Force returns the captured Node's eval(),
\*   Panic panics,
\*   Trace writes format!("{:?}", n) of the captured Node and returns it.
Stubs == {"Ret", "Force", "Panic", "Trace"}

VARIABLES
    heap,     \* Seq of cells: the RefCell<Thunk> behind each Rc
    built,    \* built[t]: the computation cell t was constructed with (record of the construction)
    calls,    \* calls[t]: how many times the ThunkEval::eval of cell t was invoked (instrumentation)
    stack,    \* the evaluator's call stack, innermost frame last
    ret,      \* the Node returned by the call that just returned
    result,   \* the host's last API call and what it returned
    log,      \* instrumentation: the events of the host's last call, when it is an evaluate
    first     \* first[t]: the Node the first evaluate of a handle to cell t returned to the host (instrumentation)

vars == <<heap, built, calls, stack, ret, result, log, first>>

---------------------------------------------------------------------------
\* Node: the enum of src lines 7-11.

NodeInt(v) == [tag |-> "Int", i |-> v, ref |-> 0]

ThunkRef(t) == [tag |-> "ThunkRef", i |-> 0, ref |-> t]

\* No Node at all (an empty slot of the model, not a value of the program).
NoNode == [tag |-> "None", i |-> 0, ref |-> 0]

\* A boxed ThunkEval: a builtin struct {nl, nr} or a host stub capturing nl.
Comp(kind, nl, nr) == [kind |-> kind, nl |-> nl, nr |-> nr]

NoComp == Comp("None", NoNode, NoNode)

\* Thunk: the enum of src lines 44-47, inside its RefCell (the borrow flag).
UThunk(c) == [st |-> "UThunk", eval |-> c, value |-> NoNode, borrowed |-> FALSE]

EThunk(n) == [st |-> "EThunk", eval |-> NoComp, value |-> n, borrowed |-> FALSE]

\* int(int_val): a scalar Node; no cell is allocated.
int(int_val) == NodeInt(int_val)

Cells == 1..Len(heap)

\* The Nodes the host can hold when n cells exist: scalars it made with
\* int(), and handles to the cells.
NodesOver(n) == {int(v) : v \in IntVals} \cup {ThunkRef(t) : t \in 1..n}

HostNodes == NodesOver(Len(heap))

\* The computations the host can box into cell t: a builtin struct over
\* existing Nodes, or a stub over an existing Node; a Force or Trace stub may
\* also hold a handle to the cell it is boxed in (tied after construction).
BuiltinComps(op, t) ==
    {Comp(op, nl, nr) : nl \in NodesOver(t - 1), nr \in NodesOver(t - 1)}

StubComps(t) ==
    {Comp("Ret", n, NoNode) : n \in NodesOver(t - 1)}
      \cup {Comp("Force", ThunkRef(u), NoNode) : u \in 1..t}
      \cup {Comp("Trace", ThunkRef(u), NoNode) : u \in 1..t}
      \cup {Comp("Panic", NoNode, NoNode)}

---------------------------------------------------------------------------
\* Native i64 arithmetic.  The scalars of the model stay far inside the i64
\* range, so no operation overflows.

Abs(x) == IF x < 0 THEN -x ELSE x

\* A quotient rounded toward minus infinity.
FloorDiv(a, b) == a \div b

\* Rust's / on integers truncates toward zero (TLA+'s \div floors).
TruncDiv(a, b) ==
    IF (a < 0) = (b < 0) THEN Abs(a) \div Abs(b) ELSE -(Abs(a) \div Abs(b))

\* A subtraction that takes its operands in the wrong order.
ApplyOpReversed(op, vl, vr) ==
    CASE op = "Add" -> vl + vr
      [] op = "Sub" -> vr - vl
      [] op = "Mul" -> vl * vr
      [] op = "Div" -> TruncDiv(vl, vr)

\* vl $op vr of bin_arith!, for a non-faulting application.
ApplyOp(op, vl, vr) ==
    CASE op = "Add" -> vl + vr
      [] op = "Sub" -> vl - vr
      [] op = "Mul" -> vl * vr
      [] op = "Div" -> TruncDiv(vl, vr)

\* The native fault of vl $op vr: only the division by zero.
OpFaults(op, vl, vr) == op = "Div" /\ vr = 0

---------------------------------------------------------------------------
\* Results of host calls.

Returned(op, self, v) ==
    [op |-> op, self |-> self, kind |-> "Value", value |-> v, fault |-> "none",
     text |-> <<>>]

Faulted(op, self, f) ==
    [op |-> op, self |-> self, kind |-> "Fault", value |-> NoNode, fault |-> f,
     text |-> <<>>]

Running(op, self) ==
    [op |-> op, self |-> self, kind |-> "Running", value |-> NoNode, fault |-> "none",
     text |-> <<>>]

Written(op, self, txt) ==
    [op |-> op, self |-> self, kind |-> "Text", value |-> NoNode, fault |-> "none",
     text |-> txt]

NoResult == Running("none", NoNode)

\* Stack frames: a call of Node::eval, or a call of a ThunkEval::eval.
EvalFrame(n) ==
    [fn |-> "eval", pc |-> "reduce", self |-> n, kind |-> "none",
     nl |-> NoNode, nr |-> NoNode, vl |-> NoNode]

CompFrame(t, c) ==
    [fn |-> "comp", pc |-> "start", self |-> ThunkRef(t), kind |-> c.kind,
     nl |-> c.nl, nr |-> c.nr, vl |-> NoNode]

Top == stack[Len(stack)]

Pop == SubSeq(stack, 1, Len(stack) - 1)

SetTop(f) == [stack EXCEPT ![Len(stack)] = f]

\* An event of the log: cell t's computation was invoked ("invoke"), began
\* ("begin") or ended ("end") forcing its operand n, the latter with value v,
\* applied its operator ("apply"), was memoized with v ("done"), or panicked
\* ("panic": in the computation of cell t, or in a borrow of cell t), or
\* called the Debug formatter on n ("debug").
Event(ev, t, n, v) == [ev |-> ev, t |-> t, n |-> n, v |-> v]

Idle == stack = <<>>

---------------------------------------------------------------------------
Init ==
    /\ heap = <<>>
    /\ built = <<>>
    /\ calls = <<>>
    /\ stack = <<>>
    /\ ret = NoNode
    /\ result = NoResult
    /\ log = <<>>
    /\ first = <<>>

\* A constructor that folds a builtin over two scalars at once: it applies
\* the operator while constructing and stores the result.
AllocStrict(op, c) ==
    /\ Idle
    /\ Len(heap) < MaxThunks
    /\ LET fold == /\ c.kind \in Ops
                   /\ c.nl.tag = "Int" /\ c.nr.tag = "Int"
                   /\ ~OpFaults(c.kind, c.nl.i, c.nr.i) IN
       /\ heap' = Append(heap, IF fold
                                THEN EThunk(NodeInt(ApplyOp(c.kind, c.nl.i, c.nr.i)))
                                ELSE UThunk(c))
       /\ calls' = Append(calls, IF fold THEN 1 ELSE 0)
    /\ built' = Append(built, c)
    /\ result' = Returned(op, NoNode, ThunkRef(Len(heap) + 1))
    /\ log' = <<>>
    /\ first' = Append(first, NoNode)
    /\ UNCHANGED <<stack, ret>>

\* thunk(boxed_t): a fresh cell, Pending, holding the boxed computation.
Alloc(op, c) ==
    /\ Idle
    /\ Len(heap) < MaxThunks
    /\ heap' = Append(heap, UThunk(c))
    /\ built' = Append(built, c)
    /\ calls' = Append(calls, 0)
    /\ result' = Returned(op, NoNode, ThunkRef(Len(heap) + 1))
    /\ log' = <<>>
    /\ first' = Append(first, NoNode)
    /\ UNCHANGED <<stack, ret>>

\* thunk() called by the host with a stub.
MakeThunk == \E c \in StubComps(Len(heap) + 1) : Alloc("thunk", c)

\* The functions bin_thunk! defines: the operands move into the struct.
Builtin(op) == \E c \in BuiltinComps(op, Len(heap) + 1) : Alloc(op, c)

Add == Builtin("Add")

Sub == Builtin("Sub")

Div == Builtin("Div")

Mul == Builtin("Mul")

\* The Nodes the host holds: the ones it made, and the one its last call
\* returned.
Held == HostNodes \cup (IF result.kind = "Value" THEN {result.value} ELSE {})

\* Node::clone (derived): a scalar copy, or another handle to the same cell.
Clone ==
    \E n \in HostNodes :
        /\ Idle
        /\ result' = Returned("clone", n, n)
        /\ log' = <<>>
        /\ UNCHANGED <<heap, built, calls, stack, ret, first>>

\* Whether the recursion of the Debug implementations ends on n: it follows
\* the Nodes held by EThunk cells, and a chain longer than the heap is a cycle.
RECURSIVE DebugEnds(_, _)
DebugEnds(n, fuel) ==
    IF n.tag = "Int" THEN TRUE
    ELSE IF heap[n.ref].st = "UThunk" THEN TRUE
    ELSE IF fuel = 0 THEN FALSE
    ELSE DebugEnds(heap[n.ref].value, fuel - 1)

\* fmt::Debug for Node and for Thunk: the text, as a sequence of pieces.
RECURSIVE DebugText(_, _)
DebugText(n, fuel) ==
    IF n.tag = "Int" THEN <<"Int(", ToString(n.i), ")">>
    ELSE IF heap[n.ref].st = "UThunk" THEN <<"#[UNEVALED]">>
    ELSE IF fuel = 0 THEN <<>>
    ELSE <<"#[">> \o DebugText(heap[n.ref].value, fuel - 1) \o <<"]">>

\* format!("{:?}", node) called by the host: borrow() panics on a cell that
\* is mutably borrowed; a cycle of EThunk cells overflows the stack.
Debug ==
    \E n \in Held :
        /\ Idle
        /\ result' =
             IF n.tag = "ThunkRef" /\ heap[n.ref].borrowed
             THEN Faulted("debug", n, "Borrow")
             ELSE IF ~DebugEnds(n, Len(heap))
             THEN Faulted("debug", n, "StackOverflow")
             ELSE Written("debug", n, DebugText(n, Len(heap)))
        /\ log' = <<>>
        /\ UNCHANGED <<heap, built, calls, stack, ret, first>>

\* format!("{}", node) called by the host: the scalar of an Int; a ThunkRef
\* is unreachable!(), its message the Debug text of the cell.
Display ==
    \E n \in Held :
        /\ Idle
        /\ result' =
             IF n.tag = "Int"
             THEN Written("display", n, <<ToString(n.i)>>)
             ELSE IF heap[n.ref].borrowed
             THEN Faulted("display", n, "Borrow")
             ELSE IF ~DebugEnds(n, Len(heap))
             THEN Faulted("display", n, "StackOverflow")
             ELSE Faulted("display", n, "Unreachable")
        /\ log' = <<>>
        /\ UNCHANGED <<heap, built, calls, stack, ret, first>>

---------------------------------------------------------------------------
\* The evaluator.  Each step rewrites the machine state M; a panic unwinds.

M ==
    [heap |-> heap, calls |-> calls, stack |-> stack, ret |-> ret,
     result |-> result, log |-> log, first |-> first]

Becomes(m) ==
    /\ heap' = m.heap
    /\ calls' = m.calls
    /\ stack' = m.stack
    /\ ret' = m.ret
    /\ result' = m.result
    /\ log' = m.log
    /\ first' = m.first
    /\ UNCHANGED built

\* An unwinding that memoizes a default Value in every cell whose reduction
\* it interrupts.
PanicMemoizes(m, t, f) ==
    [m EXCEPT !.stack = <<>>,
              !.log = Append(m.log, Event("panic", t, NoNode, NoNode)),
              !.heap = [u \in DOMAIN m.heap |->
                           IF m.heap[u].borrowed THEN EThunk(NodeInt(0)) ELSE m.heap[u]],
              !.ret = NoNode,
              !.result = Faulted(m.result.op, m.result.self, f)]

\* Unwinding: every frame is dropped, and with it every RefMut it holds; a
\* cell whose reduction was in progress keeps the state it had (UThunk).
Panic(m, t, f) ==
    [m EXCEPT !.stack = <<>>,
              !.log = Append(m.log, Event("panic", t, NoNode, NoNode)),
              !.heap = [u \in DOMAIN m.heap |-> [m.heap[u] EXCEPT !.borrowed = FALSE]],
              !.ret = NoNode,
              !.result = Faulted(m.result.op, m.result.self, f)]

\* The record of the first Node returned for each cell.
FirstReturn(f, self, v) ==
    IF self.tag = "ThunkRef" /\ f[self.ref] = NoNode
    THEN [f EXCEPT ![self.ref] = v]
    ELSE f

\* A frame returns v to its caller, or to the host when it is the outermost.
Return(m, v) ==
    IF Len(m.stack) = 1
    THEN [m EXCEPT !.stack = <<>>, !.ret = NoNode,
                   !.result = Returned(m.result.op, m.result.self, v),
                   !.first = FirstReturn(m.first, m.result.self, v)]
    ELSE [m EXCEPT !.stack = SubSeq(m.stack, 1, Len(m.stack) - 1), !.ret = v]

\* An evaluate that forces the newest cell of the heap, whatever Node it was
\* called on.
EvaluateForcesLast ==
    \E n \in HostNodes :
        /\ Idle
        /\ \A t \in Cells : calls[t] < MaxCalls
        /\ stack' = <<EvalFrame(IF Len(heap) > 0 THEN ThunkRef(Len(heap)) ELSE n)>>
        /\ result' = Running("eval", n)
        /\ log' = <<>>
        /\ UNCHANGED <<heap, built, calls, ret, first>>

\* The host calls node.eval().
Evaluate ==
    \E n \in HostNodes :
        /\ Idle
        /\ \A t \in Cells : calls[t] < MaxCalls
        /\ stack' = <<EvalFrame(n)>>
        /\ result' = Running("eval", n)
        /\ log' = <<>>
        /\ UNCHANGED <<heap, built, calls, ret, first>>

\* A reduce() that drops the Node its computation returned and leaves the
\* cell Pending.
MemoDropped(n) == UThunk(NoComp)

\* What reduce() writes into a cell whose computation returned n.
Memoized(n) == EThunk(n)

\* A reduce() that never looks at the state of the cell: it runs the
\* computation the cell was built with on every call.
ReduceRecomputes ==
    /\ ~Idle
    /\ Top.fn = "eval" /\ Top.pc = "reduce"
    /\ LET t == Top.self.ref IN
       Becomes(
         IF Top.self.tag = "Int"
         THEN [M EXCEPT !.stack = SetTop([Top EXCEPT !.pc = "match"])]
         ELSE IF heap[t].borrowed
         THEN Panic(M, t, "BorrowMut")
         ELSE [M EXCEPT !.heap = [heap EXCEPT ![t] = [UThunk(built[t]) EXCEPT !.borrowed = TRUE]],
                        !.calls = [calls EXCEPT ![t] = @ + 1],
                        !.stack = Append(SetTop([Top EXCEPT !.pc = "memo"]),
                                         CompFrame(t, built[t])),
                        !.log = Append(log, Event("invoke", t, NoNode, NoNode))])

\* A reduce() without the exclusive borrow: it runs the computation of a
\* Pending cell also when a reduction of that cell is already in progress.
ReduceReentrant ==
    /\ ~Idle
    /\ Top.fn = "eval" /\ Top.pc = "reduce"
    /\ LET t == Top.self.ref IN
       Becomes(
         IF Top.self.tag = "Int"
         THEN [M EXCEPT !.stack = SetTop([Top EXCEPT !.pc = "match"])]
         ELSE IF heap[t].st = "UThunk"
         THEN [M EXCEPT !.heap = [heap EXCEPT ![t].borrowed = TRUE],
                        !.calls = [calls EXCEPT ![t] = @ + 1],
                        !.stack = Append(SetTop([Top EXCEPT !.pc = "memo"]),
                                         CompFrame(t, heap[t].eval)),
                        !.log = Append(log, Event("invoke", t, NoNode, NoNode))]
         ELSE [M EXCEPT !.stack = SetTop([Top EXCEPT !.pc = "match"])])

\* self.reduce(), up to the call of the boxed computation: an Int is left
\* alone; borrow_mut() panics on a cell already borrowed; an EThunk is a noop.
Reduce ==
    /\ ~Idle
    /\ Top.fn = "eval" /\ Top.pc = "reduce"
    /\ LET t == Top.self.ref IN
       Becomes(
         IF Top.self.tag = "Int"
         THEN [M EXCEPT !.stack = SetTop([Top EXCEPT !.pc = "match"])]
         ELSE IF heap[t].borrowed
         THEN Panic(M, t, "BorrowMut")
         ELSE IF heap[t].st = "UThunk"
         THEN [M EXCEPT !.heap = [heap EXCEPT ![t].borrowed = TRUE],
                        !.calls = [calls EXCEPT ![t] = @ + 1],
                        !.stack = Append(SetTop([Top EXCEPT !.pc = "memo"]),
                                         CompFrame(t, heap[t].eval)),
                        !.log = Append(log, Event("invoke", t, NoNode, NoNode))]
         ELSE [M EXCEPT !.stack = SetTop([Top EXCEPT !.pc = "match"])])

\* *t_mut = Thunk::EThunk(eval.eval()): the computation returned; the RefMut
\* is dropped at the end of reduce().
Memo ==
    /\ ~Idle
    /\ Top.fn = "eval" /\ Top.pc = "memo"
    /\ LET t == Top.self.ref IN
       Becomes([M EXCEPT !.heap = [heap EXCEPT ![t] = Memoized(ret)],
                        !.stack = SetTop([Top EXCEPT !.pc = "match"]),
                        !.ret = NoNode,
                        !.log = Append(log, Event("done", t, NoNode, ret))])

\* A match that goes back to reduce() after reading a Done cell instead of
\* returning its Node.
MatchSpins ==
    /\ ~Idle
    /\ Top.fn = "eval" /\ Top.pc = "match"
    /\ LET t == Top.self.ref IN
       Becomes(
         IF Top.self.tag = "Int"
         THEN Return(M, Top.self)
         ELSE IF heap[t].borrowed
         THEN Panic(M, t, "Borrow")
         ELSE IF heap[t].st = "UThunk"
         THEN Panic(M, t, "Invariant")
         ELSE [M EXCEPT !.stack = SetTop([Top EXCEPT !.pc = "reduce"])])

\* The match of eval(): an Int is returned as it is; a cell is borrowed and
\* read: UThunk panics, EThunk(value) returns value.clone().
Match ==
    /\ ~Idle
    /\ Top.fn = "eval" /\ Top.pc = "match"
    /\ LET t == Top.self.ref IN
       Becomes(
         IF Top.self.tag = "Int"
         THEN Return(M, Top.self)
         ELSE IF heap[t].borrowed
         THEN Panic(M, t, "Borrow")
         ELSE IF heap[t].st = "UThunk"
         THEN Panic(M, t, "Invariant")
         ELSE Return(M, heap[t].value))

\* A bin_arith! that binds vr before vl.
ForcesRightFirst(f) == f.nr

\* The operand bin_arith! forces first, and the one it forces second.
FirstForced(f) == f.nl

SecondForced(f) == f.nr

IsBin == ~Idle /\ Top.fn = "comp" /\ Top.kind \in Ops

\* let vl = $nl.eval(): the call.
BinLeft ==
    /\ IsBin /\ Top.pc = "start"
    /\ LET n == FirstForced(Top) IN
       Becomes([M EXCEPT !.stack = Append(SetTop([Top EXCEPT !.pc = "gotL"]),
                                         EvalFrame(n)),
                        !.log = Append(log, Event("begin", Top.self.ref, n, NoNode))])

\* vl is bound; let vr = $nr.eval(): the call.
BinRight ==
    /\ IsBin /\ Top.pc = "gotL"
    /\ LET n == SecondForced(Top)
           t == Top.self.ref IN
       Becomes([M EXCEPT !.stack = Append(SetTop([Top EXCEPT !.pc = "gotR", !.vl = ret]),
                                         EvalFrame(n)),
                        !.ret = NoNode,
                        !.log = log \o <<Event("end", t, FirstForced(Top), ret),
                                        Event("begin", t, n, NoNode)>>])

\* Type checks that look at the right operand first.
TypeFaultRightFirst(vl, vr) ==
    IF vr.tag = "Int"
    THEN IF vl.tag = "Int" THEN "none" ELSE "TypeLeft"
    ELSE "TypeRight"

\* The type checks of bin_arith!: the left one decides first.
TypeFault(vl, vr) ==
    IF vl.tag = "Int"
    THEN IF vr.tag = "Int" THEN "none" ELSE "TypeRight"
    ELSE "TypeLeft"

\* A bin_arith! whose division by zero yields 0 instead of the native fault.
BinApplyZeroQuotient ==
    /\ IsBin /\ Top.pc = "gotR"
    /\ LET vl == Top.vl
           vr == ret
           t == Top.self.ref
           lg == Append(log, Event("end", t, SecondForced(Top), ret))
           m == [M EXCEPT !.log = lg] IN
       Becomes(
         IF TypeFault(vl, vr) # "none"
         THEN Panic(m, t, TypeFault(vl, vr))
         ELSE Return([m EXCEPT !.log = Append(lg, Event("apply", t, NoNode, NoNode))],
                     NodeInt(IF OpFaults(Top.kind, vl.i, vr.i)
                             THEN 0
                             ELSE ApplyOp(Top.kind, vl.i, vr.i))))

\* vr is bound; the checks, then vl $op vr.
BinApply ==
    /\ IsBin /\ Top.pc = "gotR"
    /\ LET vl == Top.vl
           vr == ret
           t == Top.self.ref
           lg == Append(log, Event("end", t, SecondForced(Top), ret))
           m == [M EXCEPT !.log = lg] IN
       Becomes(
         IF TypeFault(vl, vr) # "none"
         THEN Panic(m, t, TypeFault(vl, vr))
         ELSE IF OpFaults(Top.kind, vl.i, vr.i)
         THEN Panic([m EXCEPT !.log = Append(lg, Event("apply", t, NoNode, NoNode))],
                    t, "DivZero")
         ELSE Return([m EXCEPT !.log = Append(lg, Event("apply", t, NoNode, NoNode))],
                     NodeInt(ApplyOp(Top.kind, vl.i, vr.i))))

\* The host's stubs.
StubRet ==
    /\ ~Idle
    /\ Top.fn = "comp" /\ Top.kind = "Ret"
    /\ Becomes(Return(M, Top.nl))

StubPanic ==
    /\ ~Idle
    /\ Top.fn = "comp" /\ Top.kind = "Panic"
    /\ Becomes(Panic(M, Top.self.ref, "Stub"))

StubForce ==
    /\ ~Idle
    /\ Top.fn = "comp" /\ Top.kind = "Force"
    /\ Becomes(
         IF Top.pc = "start"
         THEN [M EXCEPT !.stack = Append(SetTop([Top EXCEPT !.pc = "got"]),
                                         EvalFrame(Top.nl))]
         ELSE Return(M, ret))

\* A stub that formats its Node with {:?} while its own cell is being reduced:
\* Debug for Node borrows the cell of n (src line 73), which panics when that
\* cell is mutably borrowed by a reduction in progress.
StubTrace ==
    /\ ~Idle
    /\ Top.fn = "comp" /\ Top.kind = "Trace"
    /\ LET n == Top.nl
           m == [M EXCEPT !.log = Append(log, Event("debug", Top.self.ref, n, NoNode))] IN
       Becomes(
         IF heap[n.ref].borrowed
         THEN Panic(m, n.ref, "Borrow")
         ELSE Return(m, n))

Next ==
    \/ MakeThunk
    \/ Add
    \/ Sub
    \/ Div
    \/ Mul
    \/ Clone
    \/ Debug
    \/ Display
    \/ Evaluate
    \/ Reduce
    \/ Memo
    \/ Match
    \/ BinLeft
    \/ BinRight
    \/ BinApply
    \/ StubRet
    \/ StubPanic
    \/ StubForce
    \/ StubTrace

Spec == Init /\ [][Next]_vars

---------------------------------------------------------------------------
\* Graphs of three cells: the host has built two cells of any kind and then
\* a builtin over handles to them, the second cell among its operands (as
\* left, as right, or as both); nothing has been forced yet.

AllComps(t) == StubComps(t) \cup UNION {BuiltinComps(op, t) : op \in Ops}

GraphInit ==
    \E c1 \in AllComps(1), c2 \in AllComps(2), op \in Ops :
      \E l \in {1, 2}, r \in {1, 2} :
        LET c3 == Comp(op, ThunkRef(l), ThunkRef(r)) IN
        /\ 2 \in {l, r}
        /\ heap = <<UThunk(c1), UThunk(c2), UThunk(c3)>>
        /\ built = <<c1, c2, c3>>
        /\ calls = <<0, 0, 0>>
        /\ stack = <<>>
        /\ ret = NoNode
        /\ result = Returned(op, NoNode, ThunkRef(3))
        /\ log = <<>>
        /\ first = <<NoNode, NoNode, NoNode>>

GraphNext ==
    \/ Evaluate
    \/ Reduce
    \/ Memo
    \/ Match
    \/ BinLeft
    \/ BinRight
    \/ BinApply
    \/ StubRet
    \/ StubPanic
    \/ StubForce
    \/ StubTrace

SpecGraph == GraphInit /\ [][GraphNext]_vars

---------------------------------------------------------------------------
\* Expression graphs: the host has built a builtin over two scalars and a
\* builtin over scalars and the first cell; nothing has been forced yet.

ArithVals == {-7, 2, 3, 4}

ArithNodes(n) == {int(v) : v \in ArithVals} \cup {ThunkRef(t) : t \in 1..n}

ArithInit ==
    \E op1 \in Ops, op2 \in Ops :
      \E a \in ArithNodes(0), b \in ArithNodes(0), x \in ArithNodes(1), y \in ArithNodes(1) :
        LET c1 == Comp(op1, a, b)
            c2 == Comp(op2, x, y) IN
        /\ heap = <<UThunk(c1), UThunk(c2)>>
        /\ built = <<c1, c2>>
        /\ calls = <<0, 0>>
        /\ stack = <<>>
        /\ ret = NoNode
        /\ result = Returned(op2, NoNode, ThunkRef(2))
        /\ log = <<>>
        /\ first = <<NoNode, NoNode>>

ArithNext ==
    \/ Evaluate
    \/ Reduce
    \/ Memo
    \/ Match
    \/ BinLeft
    \/ BinRight
    \/ BinApply

SpecArith == ArithInit /\ [][ArithNext]_vars

\* A step of the evaluator.  Once the host has called eval() the call runs on
\* without waiting for anything: the thread is never suspended, so a step
\* that stays enabled is eventually taken.  The host's calls are not fair.
EvalStep ==
    \/ Reduce
    \/ Memo
    \/ Match
    \/ BinLeft
    \/ BinRight
    \/ BinApply

LiveArith == ArithInit /\ [][ArithNext]_vars /\ WF_vars(EvalStep)

\* Quotients: the host has built div(int(a), int(b)) for scalars of magnitude
\* up to MaxMagnitude.

MaxMagnitude == 8

DivInit ==
    \E a \in -MaxMagnitude..MaxMagnitude, b \in -MaxMagnitude..MaxMagnitude :
        LET c1 == Comp("Div", int(a), int(b)) IN
        /\ heap = <<UThunk(c1)>>
        /\ built = <<c1>>
        /\ calls = <<0>>
        /\ stack = <<>>
        /\ ret = NoNode
        /\ result = Returned("Div", NoNode, ThunkRef(1))
        /\ log = <<>>
        /\ first = <<NoNode>>

SpecDiv == DivInit /\ [][ArithNext]_vars

---------------------------------------------------------------------------
\* Properties.

\* The host's evaluate of ThunkRef(t) has returned v.
Evaluated(t, v) == result = Returned("eval", ThunkRef(t), v)

\* C1: every thunk cell changes state at most once, whatever the host calls
\* (constructors, evaluate, clone, formatting): a cell that is Done (EThunk)
\* stays Done in every step and keeps the Node it holds, so Pending -> Done
\* happens at most once and Done -> Pending never.
C1_ThunkChangesOnce ==
    [][\A t \in Cells :
          heap[t].st = "EThunk" =>
              /\ t <= Len(heap')
              /\ heap'[t].st = "EThunk"
              /\ heap'[t].value = heap[t].value]_vars

\* A Done cell on which the host has gone on to call the debug formatter.
C1_Witness ==
    \E t \in Cells :
        /\ heap[t].st = "EThunk"
        /\ calls[t] = 1
        /\ result.op = "debug" /\ result.self = ThunkRef(t)

\* A step in which the host's evaluate call returns.
EvalReturns ==
    result.op = "eval" /\ result.kind = "Running" /\ result'.kind = "Value"

\* The log records no invocation of any Deferred Computation.
NoInvocation(lg) == \A i \in 1..Len(lg) : lg[i].ev # "invoke"

\* C2: evaluate is idempotent: whenever evaluate(n) returns, the Deferred
\* Computation of n's cell has been invoked exactly once in total, and when an
\* earlier evaluate(n) has already returned, this call returns the same Node
\* and invokes no Deferred Computation at all; an Int is returned as it is.
C2_EvaluateIdempotent ==
    [][EvalReturns =>
          LET n == result.self IN
          IF n.tag = "Int"
          THEN result'.value = n /\ NoInvocation(log')
          ELSE /\ calls'[n.ref] = 1
               /\ first[n.ref] # NoNode =>
                     /\ result'.value = first[n.ref]
                     /\ NoInvocation(log')]_vars

\* A second evaluate of the same handle has returned: the cell was Done when
\* the call began (nothing was invoked during it), and only the host's own
\* earlier evaluate can have forced it (no other computation ever ran).
C2_Witness ==
    \E t \in Cells :
        /\ Evaluated(t, first[t])
        /\ log = <<>>
        /\ \A u \in Cells : calls[u] = IF u = t THEN 1 ELSE 0

\* C3: sharing: a cell that is Done has had its Deferred Computation invoked
\* exactly once, however many Nodes reference it and however many of them
\* were forced, and every force of an operand that is a handle to it ended
\* with the memoized Node.
C3_SharedForcedOnce ==
    \A t \in Cells :
        heap[t].st = "EThunk" =>
            /\ calls[t] = 1
            /\ \A i \in 1..Len(log) :
                  (log[i].ev = "end" /\ log[i].n = ThunkRef(t)) =>
                      log[i].v = heap[t].value

\* One cell is an operand of two builtin cells, both computations forced it
\* during one evaluate, and it was invoked once.
C3_Witness ==
    \E t \in Cells, i \in 1..Len(log), j \in 1..Len(log) :
        /\ log[i].ev = "end" /\ log[i].n = ThunkRef(t)
        /\ log[j].ev = "end" /\ log[j].n = ThunkRef(t)
        /\ log[i].t # log[j].t
        /\ built[log[i].t].kind \in Ops /\ built[log[j].t].kind \in Ops
        /\ calls[t] = 1
        /\ result.kind = "Value"

\* C4: an evaluate call that returns without fault returns an Int, never a
\* Thunk reference, for every Node built with int(), thunk() and the builtins.
C4_EvaluateReturnsInt ==
    (result.op = "eval" /\ result.kind = "Value") => result.value.tag = "Int"

\* C5: laziness: a call of add, sub, mul or div returns a handle to a fresh
\* Pending cell holding the builtin computation over its operands, invokes no
\* Deferred Computation, and leaves every existing cell (its operands' cells
\* included) and every invocation count as they were.
C5_ConstructionIsLazy ==
    [][(Len(heap') > Len(heap) /\ result'.op \in Ops) =>
          LET new == Len(heap) + 1 IN
          /\ Len(heap') = new
          /\ result' = Returned(result'.op, NoNode, ThunkRef(new))
          /\ heap'[new] = UThunk(built'[new])
          /\ built'[new].kind = result'.op
          /\ calls'[new] = 0
          /\ \A t \in Cells : heap'[t] = heap[t] /\ calls'[t] = calls[t]
          /\ stack' = <<>>]_vars

\* A builtin has just been constructed over a handle to a cell that is still
\* Pending and was never invoked.
C5_Witness ==
    /\ result.op \in Ops /\ result.kind = "Value"
    /\ LET t == result.value.ref IN
       /\ heap[t].st = "UThunk" /\ calls[t] = 0
       /\ built[t].nl.tag = "ThunkRef"
       /\ heap[built[t].nl.ref].st = "UThunk"
       /\ calls[built[t].nl.ref] = 0
       /\ built[t].nr.tag = "Int"

\* The events of the log that the computation of cell t recorded.
OwnEvents(lg, t) ==
    SelectSeq(lg, LAMBDA e : e.t = t /\ e.ev \notin {"invoke", "panic", "debug"})

\* The order in which a builtin over nl and nr is to proceed.
ForcingOrder(nl, nr) ==
    << <<"begin", nl>>, <<"end", nl>>, <<"begin", nr>>, <<"end", nr>>,
       <<"apply", NoNode>>, <<"done", NoNode>> >>

\* C6: operand ordering: whenever a builtin cell is forced, its events are a
\* prefix of: begin nl, end nl, begin nr, end nr, apply, done; so the forcing
\* of nl ends before that of nr begins and both end before the operator is
\* applied.  A thunk operand is Done once its forcing has ended, and the cell
\* itself is Pending until its last event.
C6_LeftOperandFirst ==
    \A t \in Cells :
        built[t].kind \in Ops =>
            LET own == OwnEvents(log, t)
                nl == built[t].nl
                nr == built[t].nr IN
            /\ Len(own) <= 6
            /\ \A i \in 1..Len(own) : <<own[i].ev, own[i].n>> = ForcingOrder(nl, nr)[i]
            /\ (Len(own) >= 3 /\ nl.tag = "ThunkRef") => heap[nl.ref].st = "EThunk"
            /\ (Len(own) >= 5 /\ nr.tag = "ThunkRef") => heap[nr.ref].st = "EThunk"
            /\ Len(own) \in 1..5 => heap[t].st = "UThunk"

\* The forcing of the right operand of a builtin over two distinct thunks has
\* begun: the left operand is Done, the right one has not been invoked yet.
C6_Witness ==
    \E t \in Cells :
        /\ built[t].kind \in Ops
        /\ Len(OwnEvents(log, t)) = 3
        /\ built[t].nl.tag = "ThunkRef" /\ built[t].nr.tag = "ThunkRef"
        /\ built[t].nl # built[t].nr
        /\ heap[built[t].nl.ref].st = "EThunk"
        /\ heap[built[t].nr.ref].st = "UThunk"
        /\ calls[built[t].nr.ref] = 0

\* The host's evaluate ended in fault f, raised by the computation of cell t.
FaultedBy(t, f) ==
    /\ result = Faulted("eval", result.self, f)
    /\ log # <<>>
    /\ log[Len(log)] = Event("panic", t, NoNode, NoNode)

\* C7: left-operand faults preempt right-operand faults: when an evaluate
\* faults and a builtin cell had forced its left operand to a non-integer, the
\* fault that ended the evaluation is that cell's left type mismatch, whatever
\* the right operand does; and when the forcing of the left operand itself
\* faulted, the forcing of the right operand never began.
C7_LeftFaultPreempts ==
    \A t \in Cells :
        (built[t].kind \in Ops /\ result.op = "eval" /\ result.kind = "Fault") =>
            LET own == OwnEvents(log, t) IN
            /\ (Len(own) >= 2 /\ own[2].v.tag # "Int") => FaultedBy(t, "TypeLeft")
            /\ (Len(own) = 1) => \A i \in 1..Len(log) :
                                     ~(log[i].t = t /\ log[i].ev = "begin"
                                         /\ log[i].n = built[t].nr /\ i > 2
                                         /\ built[t].nl # built[t].nr)

\* C8: type mismatch: once a builtin cell has forced both operands, a left
\* value that is not an Int ends the evaluate in that cell's left type
\* mismatch (also when the right value is no Int either), an Int left value
\* with a right value that is not an Int ends it in the right type mismatch;
\* either way the operator is not applied and the cell stays Pending.  A type
\* mismatch is raised in no other case.
C8_TypeMismatch ==
    /\ \A t \in Cells :
          (built[t].kind \in Ops /\ Len(OwnEvents(log, t)) >= 4) =>
              LET own == OwnEvents(log, t)
                  vl == own[2].v
                  vr == own[4].v IN
              /\ vl.tag # "Int" =>
                    FaultedBy(t, "TypeLeft") /\ Len(own) = 4 /\ heap[t].st = "UThunk"
              /\ (vl.tag = "Int" /\ vr.tag # "Int") =>
                    FaultedBy(t, "TypeRight") /\ Len(own) = 4 /\ heap[t].st = "UThunk"
              /\ (vl.tag = "Int" /\ vr.tag = "Int") =>
                    ~FaultedBy(t, "TypeLeft") /\ ~FaultedBy(t, "TypeRight")
    /\ result.fault \in {"TypeLeft", "TypeRight"} =>
          \E t \in Cells : built[t].kind \in Ops /\ Len(OwnEvents(log, t)) = 4
                              /\ FaultedBy(t, result.fault)

\* Both operands of a builtin were forced to Thunk references, and the fault
\* names the left one.
C8_Witness ==
    \E t \in Cells :
        /\ built[t].kind \in Ops
        /\ Len(OwnEvents(log, t)) = 4
        /\ OwnEvents(log, t)[2].v.tag = "ThunkRef"
        /\ OwnEvents(log, t)[4].v.tag = "ThunkRef"
        /\ FaultedBy(t, "TypeLeft")

\* q is the quotient of a by b (b # 0) rounded toward zero: its magnitude is
\* the whole number of times |b| fits into |a|, its sign that of a/b.
TowardZero(a, b, q) ==
    /\ Abs(q) * Abs(b) <= Abs(a)
    /\ Abs(a) < (Abs(q) + 1) * Abs(b)
    /\ q > 0 => (a > 0) = (b > 0)
    /\ q < 0 => (a > 0) # (b > 0)

\* The value of an expression by structural recursion over the graph as it
\* was built, with the mathematical operators.
RefOp(op, a, b) ==
    CASE op = "Add" -> a + b
      [] op = "Sub" -> a - b
      [] op = "Mul" -> a * b
      [] op = "Div" -> IF b = 0 THEN 0
                       ELSE CHOOSE q \in -Abs(a)..Abs(a) : TowardZero(a, b, q)

RECURSIVE RefValue(_)
RefValue(n) ==
    IF n.tag = "Int" THEN n.i
    ELSE RefOp(built[n.ref].kind, RefValue(built[n.ref].nl), RefValue(built[n.ref].nr))

\* No division of the expression has a zero divisor.
RECURSIVE DivSafe(_)
DivSafe(n) ==
    IF n.tag = "Int" THEN TRUE
    ELSE /\ DivSafe(built[n.ref].nl)
         /\ DivSafe(built[n.ref].nr)
         /\ built[n.ref].kind = "Div" => RefValue(built[n.ref].nr) # 0

\* C9: arithmetic correctness: on a graph built from int() and the builtins
\* in which no division has a zero divisor, an evaluate that has ended has
\* returned Int(v), v the value of the expression by the reference evaluator.
C9_ArithmeticCorrect ==
    (result.op = "eval" /\ result.kind # "Running" /\ DivSafe(result.self)) =>
        result = Returned("eval", result.self, NodeInt(RefValue(result.self)))

\* evaluate(mul(add(int(2), int(3)), int(4))) has returned 20.
C9_Witness ==
    /\ built = <<Comp("Add", int(2), int(3)), Comp("Mul", ThunkRef(1), int(4))>>
    /\ Evaluated(2, NodeInt(20))
    /\ heap[1] = EThunk(NodeInt(5))

\* C10: division truncates toward zero: evaluate(div(int(a), int(b))) with
\* b # 0 returns the quotient of a by b rounded toward zero, for every sign
\* combination: 7/2 = 3, -7/2 = -3, 7/-2 = -3, -7/-2 = 3.
C10_DivTruncates ==
    LET a == built[1].nl.i
        b == built[1].nr.i IN
    (result.op = "eval" /\ result.self = ThunkRef(1) /\ result.kind # "Running" /\ b # 0) =>
        /\ result.kind = "Value"
        /\ result.value.tag = "Int"
        /\ TowardZero(a, b, result.value.i)
        /\ (a = 7 /\ b = 2) => result.value.i = 3
        /\ (a = -7 /\ b = 2) => result.value.i = -3
        /\ (a = 7 /\ b = -2) => result.value.i = -3
        /\ (a = -7 /\ b = -2) => result.value.i = 3

\* evaluate(div(int(-7), int(2))) has returned -3 (the floor would be -4).
C10_Witness ==
    /\ built[1] = Comp("Div", int(-7), int(2))
    /\ Evaluated(1, NodeInt(-3))

\* C11: division by zero: once a div cell has forced its left operand to an
\* Int and its right operand to Int(0), the evaluate ends in the division
\* fault raised by that cell, with no Value and the cell still Pending; the
\* fault comes after the forcing of both operands has ended (the cell's events
\* are begin nl, end nl, begin nr, end nr, apply), and a division fault is
\* raised in no other case.
C11_DivisionByZero ==
    /\ \A t \in Cells :
          (built[t].kind = "Div" /\ Len(OwnEvents(log, t)) >= 4) =>
              LET own == OwnEvents(log, t) IN
              (own[2].v.tag = "Int" /\ own[4].v = NodeInt(0)) =>
                  /\ FaultedBy(t, "DivZero")
                  /\ result.value = NoNode
                  /\ Len(own) = 5 /\ own[5].ev = "apply"
                  /\ heap[t].st = "UThunk"
    /\ result.fault = "DivZero" =>
          \E t \in Cells :
              LET own == OwnEvents(log, t) IN
              /\ built[t].kind = "Div" /\ FaultedBy(t, "DivZero")
              /\ Len(own) = 5
              /\ own[2].ev = "end" /\ own[2].n = built[t].nl /\ own[2].v.tag = "Int"
              /\ own[4].ev = "end" /\ own[4].n = built[t].nr /\ own[4].v = NodeInt(0)

\* A div over two thunks has faulted: both operand cells were forced and are
\* Done, the right one holding a zero that a subtraction computed.
C11_Witness ==
    \E t \in Cells :
        /\ built[t].kind = "Div" /\ FaultedBy(t, "DivZero")
        /\ built[t].nl.tag = "ThunkRef" /\ built[t].nr.tag = "ThunkRef"
        /\ heap[built[t].nl.ref].st = "EThunk"
        /\ heap[built[t].nr.ref] = EThunk(NodeInt(0))
        /\ built[built[t].nr.ref].kind = "Sub"
        /\ heap[t].st = "UThunk"

\* C12: display contract: a display call on an Int Node writes its scalar; on
\* a handle to a Pending cell it faults; on a handle to a cell that evaluate
\* has forced to an Int it writes that scalar without fault.
C12_DisplayContract ==
    result.op = "display" =>
        LET n == result.self IN
        IF n.tag = "Int"
        THEN result = Written("display", n, <<ToString(n.i)>>)
        ELSE IF heap[n.ref].st = "UThunk"
        THEN result.kind = "Fault"
        ELSE heap[n.ref].value.tag = "Int" =>
                 result = Written("display", n, <<ToString(heap[n.ref].value.i)>>)

\* A step in which the Debug formatter is called: by the host, or by a Deferred
\* Computation while a reduction is in progress.
DebugCalled ==
    \/ result'.op = "debug"
    \/ /\ Len(log') > Len(log)
       /\ \E i \in (Len(log) + 1)..Len(log') : log'[i].ev = "debug"

\* C13: debug formatting is legal on any Node in any reachable state, also
\* while a reduction is in progress: a step that calls the Debug formatter
\* ends in no fault, leaves every cell and every invocation count as it was,
\* and a call by the host writes Int(i) for a scalar, #[UNEVALED] for a handle
\* to a Pending cell and #[<debug of the inner Node>] for one to a Done cell.
C13_DebugAlwaysLegal ==
    [][DebugCalled =>
          /\ result'.kind # "Fault"
          /\ Len(heap') = Len(heap)
          /\ \A t \in Cells : heap'[t] = heap[t] /\ calls'[t] = calls[t]
          /\ result'.op = "debug" =>
                LET n == result'.self IN
                result' = Written("debug", n,
                    IF n.tag = "Int" THEN <<"Int(", ToString(n.i), ")">>
                    ELSE IF heap[n.ref].st = "UThunk" THEN <<"#[UNEVALED]">>
                    ELSE <<"#[">> \o DebugText(heap[n.ref].value, Len(heap)) \o <<"]">>)]_vars

\* C14: the invariant-violation fault is unreachable: whenever reduce() has
\* returned normally in an eval() of a thunk Node (the frame is at its match),
\* the cell is Done and not borrowed, so the match never takes the
\* 'still Pending' panic and no evaluate ends in that fault.
C14_InvariantFaultUnreachable ==
    /\ result.fault # "Invariant"
    /\ \A i \in 1..Len(stack) :
          (stack[i].fn = "eval" /\ stack[i].pc = "match" /\ stack[i].self.tag = "ThunkRef") =>
              /\ heap[stack[i].self.ref].st = "EThunk"
              /\ ~heap[stack[i].self.ref].borrowed

\* An eval() of an operand thunk is at its match inside the reduction of a
\* builtin: reduce() has just run the operand's computation and memoized it.
C14_Witness ==
    /\ Len(stack) >= 3
    /\ Top.fn = "eval" /\ Top.pc = "match" /\ Top.self.tag = "ThunkRef"
    /\ log[Len(log)].ev = "done" /\ log[Len(log)].t = Top.self.ref
    /\ stack[Len(stack) - 1].fn = "comp" /\ stack[Len(stack) - 1].kind \in Ops

\* C15: in every reachable state the Node held by a Done cell is not a handle
\* to a Pending cell, whether the cell was made by a builtin or by thunk()
\* with any Deferred Computation.
C15_DoneHoldsNoPending ==
    \A t \in Cells :
        (heap[t].st = "EThunk" /\ heap[t].value.tag = "ThunkRef") =>
            heap[heap[t].value.ref].st = "EThunk"

\* The computation of cell t is on the call stack stk: a reduction of t is in
\* progress.
InProgress(stk, t) ==
    \E i \in 1..Len(stk) : stk[i].fn = "comp" /\ stk[i].self = ThunkRef(t)

\* C16: reduction is non-reentrant: no cell ever has two computations on the
\* call stack; a step starts the computation of a cell only when no reduction
\* of that cell is in progress; and a force of a cell whose reduction is in
\* progress (a computation reached a handle to its own cell) ends the evaluate
\* in a borrow fault without invoking any computation.
C16_ReductionNotReentrant ==
    [][/\ \A i \in 1..Len(stack'), j \in 1..Len(stack') :
             (stack'[i].fn = "comp" /\ stack'[j].fn = "comp"
                 /\ stack'[i].self = stack'[j].self) => i = j
       /\ \A t \in Cells : calls'[t] > calls[t] => ~InProgress(stack, t)
       /\ (~Idle /\ Top.fn = "eval" /\ Top.pc = "reduce" /\ Top.self.tag = "ThunkRef"
              /\ InProgress(stack, Top.self.ref)) =>
             /\ result' = Faulted("eval", result.self, "BorrowMut")
             /\ stack' = <<>>
             /\ calls' = calls
             /\ heap'[Top.self.ref].st = "UThunk"]_vars

\* The computation of a cell forced a handle to its own cell: the nested force
\* faulted, the computation was invoked once, the cell is Pending.
C16_Witness ==
    \E t \in Cells :
        /\ built[t] = Comp("Force", ThunkRef(t), NoNode)
        /\ FaultedBy(t, "BorrowMut")
        /\ calls[t] = 1
        /\ heap[t].st = "UThunk"

\* The cells the computation of cell t was built over: its operand references.
Refs(t) == {u \in 1..Len(built) : ThunkRef(u) \in {built[t].nl, built[t].nr}}

RECURSIVE Closure(_, _)
Closure(S, k) ==
    IF k = 0 THEN S ELSE Closure(S \cup UNION {Refs(t) : t \in S}, k - 1)

\* The cells reachable from n through operand references.
Reachable(n) == IF n.tag = "Int" THEN {} ELSE Closure({n.ref}, Len(built))

\* C17: frame of evaluate: every step of evaluate(n) leaves each cell that is
\* not reachable from n through operand references as it was (state, Node and
\* invocation count); when n is an Int no cell changes at all and the call
\* returns n itself.
C17_EvaluateFrame ==
    [][(result.op = "eval" /\ result.kind = "Running") =>
          LET n == result.self IN
          /\ \A t \in Cells \ Reachable(n) :
                heap'[t] = heap[t] /\ calls'[t] = calls[t]
          /\ n.tag = "Int" =>
                /\ heap' = heap /\ calls' = calls
                /\ result'.kind # "Running" => result' = Returned("eval", n, n)]_vars

\* evaluate of a handle to the second cell has returned: that cell is Done,
\* while the first cell, which it does not reach, and the third, which is
\* built over it, are Pending and were never invoked.
C17_Witness ==
    /\ result.op = "eval" /\ result.kind = "Value" /\ result.self = ThunkRef(2)
    /\ Reachable(ThunkRef(2)) = {2}
    /\ heap[2].st = "EThunk"
    /\ heap[1].st = "UThunk" /\ calls[1] = 0
    /\ heap[3].st = "UThunk" /\ calls[3] = 0
    /\ 2 \in Refs(3)

\* C18: state on fault: in the step in which an evaluate faults, every cell
\* whose reduction was in progress (the faulting one and every enclosing one)
\* is left Pending with the computation it was built with and nothing
\* memoized, every cell that was Done stays Done with its Node (the operands
\* forced during this evaluate hold the Node their forcing ended with), and no
\* computation is invoked.
C18_StateOnFault ==
    [][(result.kind = "Running" /\ result'.kind = "Fault") =>
          \A t \in Cells :
              /\ InProgress(stack, t) => heap'[t] = UThunk(built[t])
              /\ heap[t].st = "EThunk" => heap'[t] = heap[t]
              /\ \A i \in 1..Len(log) :
                    (log[i].ev = "done" /\ log[i].t = t) => heap'[t] = EThunk(log[i].v)
              /\ calls'[t] = calls[t]]_vars

\* A division by zero two reductions deep: the operand forced before the
\* fault is Done, the faulting div and the builtin enclosing it were invoked
\* and are Pending.
C18_Witness ==
    \E a \in Cells, b \in Cells, c \in Cells :
        /\ FaultedBy(b, "DivZero")
        /\ a \in Refs(b) /\ b \in Refs(c) /\ built[c].kind \in Ops
        /\ heap[a].st = "EThunk" /\ calls[a] = 1
        /\ heap[b] = UThunk(built[b]) /\ calls[b] = 1
        /\ heap[c] = UThunk(built[c]) /\ calls[c] = 1
        /\ \E i \in 1..Len(log) : log[i].ev = "done" /\ log[i].t = a

\* C19: termination: on a graph built from int() and the builtins every
\* evaluate that has begun eventually ends, with a Value or with a fault; and
\* whenever an evaluate(n) has returned a Value, every cell reachable from n
\* is Done and its computation has been invoked exactly once.
C19_Termination ==
    /\ (result.kind = "Running") ~> (result.kind # "Running")
    /\ [](result.op = "eval" /\ result.kind = "Value" =>
             \A t \in Reachable(result.self) :
                 heap[t].st = "EThunk" /\ calls[t] = 1)

\* evaluate of a builtin over a builtin has returned: both cells are Done and
\* each computation ran once.
C19_Witness ==
    /\ result.op = "eval" /\ result.kind = "Value"
    /\ Reachable(result.self) = {1, 2}
    /\ heap[1].st = "EThunk" /\ heap[2].st = "EThunk"
    /\ calls = <<1, 1>>
    /\ Len(log) > 0

\* The outcome of an expression by structural recursion over the graph as it
\* was built, operands left to right: a value, or the fault of the first
\* division by zero met.  It depends on the graph alone, not on any cell.
RECURSIVE RefOutcome(_)
RefOutcome(n) ==
    IF n.tag = "Int" THEN [ok |-> TRUE, v |-> n.i]
    ELSE LET c == built[n.ref]
             l == RefOutcome(c.nl)
             r == RefOutcome(c.nr) IN
         IF ~l.ok THEN l
         ELSE IF ~r.ok THEN r
         ELSE IF c.kind = "Div" /\ r.v = 0 THEN [ok |-> FALSE, v |-> 0]
         ELSE [ok |-> TRUE, v |-> RefOp(c.kind, l.v, r.v)]

\* C20: order independence: on a graph built from int() and the builtins, an
\* evaluate(n) that has ended has the outcome the graph alone determines (the
\* Value of the expression, or the division fault), in every reachable state,
\* that is after every sequence of earlier evaluate calls on Nodes of the
\* graph, successful or faulted.
C20_OrderIndependent ==
    (result.op = "eval" /\ result.kind # "Running") =>
        LET o == RefOutcome(result.self) IN
        IF o.ok
        THEN result = Returned("eval", result.self, NodeInt(o.v))
        ELSE result = Faulted("eval", result.self, "DivZero")

\* evaluate of the second cell has faulted with its operand, the first cell,
\* already memoized by an earlier evaluate call of the host on that cell.
C20_Witness ==
    /\ result = Faulted("eval", ThunkRef(2), "DivZero")
    /\ built[2].nr = ThunkRef(1)
    /\ first[1] = NodeInt(0) /\ heap[1] = EThunk(NodeInt(0))
    /\ calls = <<1, 1>>
    /\ \A i \in 1..Len(log) : ~(log[i].ev = "invoke" /\ log[i].t = 1)
====
